---- MODULE Spec2Model ----
(***************************************************************************)
(* VisualAnnotationLayer (src/tailwind.config.js, lines 61-596): the React *)
(* component that overlays the issues of an analysis on the rendered       *)
(* asset (PDF pages, presentation slides, an HTML document, an image or a  *)
(* video) and navigates to an issue when it is selected.                   *)
(*                                                                         *)
(* Optional values (page_number?, timestamp?, boundingBox?,                *)
(* selectedIssueId?) are <<>> when absent and <<v>> when present.          *)
(* Times are whole seconds.  Percentages of a box centre are kept doubled  *)
(* (left = 2 * centerX) so that width / 2 stays exact in the integers.     *)
(* The zoom scale is kept in thousandths, the unit of handleWheel's delta. *)
(*                                                                         *)
(* UploadSection (src/components/UploadSection.tsx): the upload form, its  *)
(* file intake (handleFile and the FileReader callbacks), auto-detection   *)
(* and region controls, the processing-step label and the SharePoint       *)
(* fetch.                                                                  *)
(*                                                                         *)
(* ToastProvider (src/components/Toast.tsx): the toast list and its        *)
(* auto-dismiss timers.  AdminDashboard                                    *)
(* (src/components/AdminDashboard.tsx): the KPIs and the category          *)
(* breakdown over the history window.                                      *)
(***************************************************************************)
EXTENDS Integers, Sequences, FiniteSets, TLC

VARIABLES
    assetType,        \* prop: AssetType
    mimeType,         \* prop: MIME type of the asset
    htmlContent,      \* prop: TRUE when a (non-empty) htmlContent is given
    visualSlides,     \* prop: number of visual slides (0: undefined or empty)
    issues,           \* prop: the ordered issue list
    selectedIssueId,  \* prop: owned by the parent, changed through onIssueSelect
    currentTime,      \* useState: playback time last copied by handleTimeUpdate
    duration,         \* useState: media duration, 0 until the metadata is loaded
    scale,            \* useState: zoom scale, in thousandths
    hoveredMarkerId,  \* useState: id of the hovered marker
    numPages,         \* useState: page count of the PDF, 0 until it is loaded
    vidTime,          \* videoRef.current.currentTime
    paused,           \* videoRef.current.paused
    viewPage,         \* page of the carousel scrolled into view (pageRefs + scroll container)
    timers,           \* pending settle delays of handleSeekToIssue, oldest first
    uploadState,      \* UploadSection prop: the upload state owned by the parent
    readers,          \* FileReaders in flight: the newState of their onload closures
    lastFile,         \* the file handed to handleFile last (files[0] of the input / drop)
    formatWarning,    \* UploadSection useState
    enableRegion,     \* UploadSection useState: the 'Specific Region?' toggle
    isDetecting,      \* UploadSection useState
    detects,          \* detectContext calls in flight
    smartProcessingStep,  \* UploadSection useState: the processing-step label
    clearTimers,      \* pending setTimeout(() => setSmartProcessingStep(null), 2000)
    readyTimers,      \* pending setTimeout(() => setSmartProcessingStep("Ready ..."), 500)
    fetch,            \* SharePoint fetch: "idle", "waiting" (1500 ms) or "detecting"
    toasts,           \* ToastProvider useState: the toast list
    dismissTimers,    \* pending auto-dismiss timers of addToast
    added,            \* calls of addToast so far
    history,          \* AdminDashboard prop: the history list, newest first
    timeRange         \* AdminDashboard useState

overlayVars == <<assetType, mimeType, htmlContent, visualSlides, issues, selectedIssueId,
                 currentTime, duration, scale, hoveredMarkerId, numPages, vidTime, paused,
                 viewPage, timers>>

stepVars == <<smartProcessingStep, clearTimers, readyTimers>>

uploadVars == <<uploadState, readers, lastFile, formatWarning, enableRegion, isDetecting,
                detects, stepVars, fetch>>

toastVars == <<toasts, dismissTimers, added>>

dashVars == <<history, timeRange>>

appVars == <<toastVars, dashVars>>

vars == <<overlayVars, uploadVars, appVars>>

propVars == <<assetType, mimeType, htmlContent, visualSlides, issues>>

(***************************************************************************)
(* Bounds of the model.                                                    *)
(***************************************************************************)
MaxPages == 2          \* pages of a PDF / slides of a presentation
MaxTime == 4           \* length of a video, in seconds
MaxTimers == 2         \* settle delays pending at once
MaxReaders == 2        \* FileReaders in flight at once
MaxDetects == 2        \* detectContext calls in flight at once
MaxToasts == 3         \* calls of addToast
MaxHistory == 40       \* items of the history
MaxStepTimers == 1     \* processing-step timers of one kind pending at once

(***************************************************************************)
(* Program constants.                                                      *)
(***************************************************************************)
VideoWindow == 3       \* Math.abs(currentTime - issue.timestamp) < 3.0
MinScale == 1000       \* Math.max(1, ...)
MaxScale == 4000       \* Math.min(..., 4)
MinDetectLength == 10  \* text.length < 10

None == <<>>
Some(v) == <<v>>
IsSome(o) == o /= None
Val(o) == o[1]

Abs(n) == IF n < 0 THEN -n ELSE n
Min(a, b) == IF a < b THEN a ELSE b
Max(a, b) == IF a > b THEN a ELSE b

\* JavaScript truthiness of an optional number: undefined and 0 are falsy.
Truthy(o) == IsSome(o) /\ Val(o) /= 0

\* a || b for an optional number a and a number b.
OrElse(o, b) == IF Truthy(o) THEN Val(o) ELSE b

(***************************************************************************)
(* Inputs.                                                                 *)
(***************************************************************************)
IMAGE == "Image"
VIDEO == "Video"
DOCUMENT == "Document"
PRESENTATION == "Presentation"
PODCAST == "Podcast"

PdfMime == "application/pdf"
VideoMimes == {"video/mp4", "video/x-matroska"}

\* The (assetType, mimeType, htmlContent, slide count) combinations the upload
\* step hands over: the type comes from the file extension, the MIME type from
\* the file.
AssetConfigs ==
    {<<IMAGE, "image/png", FALSE, 0>>,
     <<VIDEO, "video/mp4", FALSE, 0>>,
     <<DOCUMENT, "video/x-matroska", FALSE, 0>>,
     <<DOCUMENT, PdfMime, FALSE, 0>>,
     <<DOCUMENT, "application/vnd.openxmlformats-officedocument.wordprocessingml.document", TRUE, 0>>,
     <<DOCUMENT, "text/plain", FALSE, 0>>,
     <<PODCAST, "audio/mpeg", FALSE, 0>>}
    \cup {<<PRESENTATION, "application/vnd.openxmlformats-officedocument.presentationml.presentation", TRUE, n>> :
            n \in 1..MaxPages}

Ids == {"a", "b"}

Boxes == {[x |-> 10, y |-> 20, width |-> 5, height |-> 8],
          [x |-> 90, y |-> -30, width |-> 30, height |-> 10]}

OptBoxes == {None} \cup {Some(b) : b \in Boxes}
AnyPages == {None} \cup {Some(p) : p \in -1..(MaxPages + 1)}
AnyTimes == {None} \cup {Some(t) : t \in {-1, 0, MaxTime}}

Issue(id, box, page, ts) ==
    [id |-> id, boundingBox |-> box, page_number |-> page, timestamp |-> ts]

\* Issue lists for the rendering rules: a first issue over every combination of
\* the optional fields, alone or followed by a second issue.
RenderIssueLists ==
    LET first == {Issue("a", b, p, t) : b \in OptBoxes, p \in AnyPages, t \in AnyTimes}
        second == {Issue("b", b, p, t) : b \in {None, Some(CHOOSE x \in Boxes : x.x = 10)},
                                         p \in {None, Some(1)}, t \in {None, Some(0)}}
    IN  {<<i>> : i \in first} \cup {<<i, j>> : i \in first, j \in second}

(***************************************************************************)
(* Render mode flags (lines 123-128).                                      *)
(***************************************************************************)
isVideo == assetType = VIDEO \/ mimeType \in VideoMimes
isPDF == mimeType = PdfMime
hasVisualSlides == visualSlides > 0
useCarousel == isPDF \/ hasVisualSlides
isDoc == htmlContent \/ assetType = DOCUMENT \/ assetType = PRESENTATION \/ isPDF

\* The branch of the JSX that is rendered (lines 226-592).
RenderMode ==
    IF isDoc
    THEN IF useCarousel
         THEN IF isPDF THEN "pdf" ELSE "slides"
         ELSE IF htmlContent THEN "html" ELSE "none"
    ELSE IF isVideo THEN "video" ELSE "image"

\* The pages the carousel renders: Array.from(new Array(numPages)) or visualSlides.map.
RenderedPages ==
    IF RenderMode = "pdf" THEN 1..numPages
    ELSE IF RenderMode = "slides" THEN 1..visualSlides
    ELSE {}

InCarousel == RenderMode \in {"pdf", "slides"}

\* videoRef.current is set exactly when the <video> element is rendered.
videoRefCurrent == RenderMode = "video"

(***************************************************************************)
(* Markers.                                                                *)
(***************************************************************************)
IssueIndexes == 1..Len(issues)

\* issues.findIndex(x => x.id === id): 0-based, -1 when there is none.
findIndex(id) ==
    IF \E k \in IssueIndexes : issues[k].id = id
    THEN (CHOOSE k \in IssueIndexes :
            /\ issues[k].id = id
            /\ \A j \in IssueIndexes : issues[j].id = id => k <= j) - 1
    ELSE -1

\* Mutant: the centre clamped into the frame, Math.min(Math.max(0, c), 100).
centerX2_Clamped(box) == Min(Max(0, 2 * box.x + box.width), 200)

\* centerX = box.x + box.width / 2, doubled.
centerX2(box) == 2 * box.x + box.width
centerY2(box) == 2 * box.y + box.height

\* Mutant: the `index === 0` test of the second disjunct dropped.
isPageMatch_AnyPage(issue, index) ==
    \/ issue.page_number = Some(index + 1)
    \/ ~Truthy(issue.page_number)

\* isPageMatch of the page with 0-based index `index` (lines 280 and 360).
isPageMatch(issue, index) ==
    \/ issue.page_number = Some(index + 1)
    \/ (~Truthy(issue.page_number) /\ index = 0)

\* Mutant: the window taken around videoRef.current.currentTime, the position of
\* the media element, in place of the currentTime state.
isVideoMatch_MediaTime(issue) ==
    /\ isVideo
    /\ \/ selectedIssueId = Some(issue.id)
       \/ /\ issue.timestamp /= None
          /\ Abs(vidTime - Val(issue.timestamp)) < VideoWindow

\* Mutant: `issue.timestamp &&` in place of `issue.timestamp !== undefined`.
isVideoMatch_TruthyTimestamp(issue) ==
    /\ isVideo
    /\ \/ selectedIssueId = Some(issue.id)
       \/ /\ Truthy(issue.timestamp)
          /\ Abs(currentTime - Val(issue.timestamp)) < VideoWindow

\* isVideoMatch (line 547).
isVideoMatch(issue) ==
    /\ isVideo
    /\ \/ selectedIssueId = Some(issue.id)
       \/ /\ issue.timestamp /= None
          /\ Abs(currentTime - Val(issue.timestamp)) < VideoWindow

\* Mutant: the badge taken from the index in issues.filter(i => i.boundingBox).
Marker_VisibleIndex(issue) ==
    [id |-> issue.id,
     badge |-> 1 + Cardinality({j \in IssueIndexes :
                    /\ j < findIndex(issue.id) + 1
                    /\ issues[j].boundingBox /= None}),
     left |-> centerX2(Val(issue.boundingBox)),
     top |-> centerY2(Val(issue.boundingBox))]

\* The marker element of an issue that has a bounding box.
Marker(issue) ==
    [id |-> issue.id,
     badge |-> findIndex(issue.id) + 1,
     left |-> centerX2(Val(issue.boundingBox)),
     top |-> centerY2(Val(issue.boundingBox))]

\* Mutant: `if (!box) return null` replaced by a default box at the origin.
PageMarkers_DefaultBox(index) ==
    {[id |-> issues[k].id,
      badge |-> findIndex(issues[k].id) + 1,
      left |-> IF issues[k].boundingBox = None THEN 0
               ELSE centerX2(Val(issues[k].boundingBox)),
      top |-> IF issues[k].boundingBox = None THEN 0
              ELSE centerY2(Val(issues[k].boundingBox))] :
        k \in {j \in IssueIndexes : isPageMatch(issues[j], index)}}

\* Mutant: every page evaluating the page rule against the first page's index.
PageMarkers_SharedIndex(index) ==
    {Marker(issues[k]) : k \in {j \in IssueIndexes :
        /\ isPageMatch(issues[j], 0)
        /\ issues[j].boundingBox /= None}}

\* Lines 279-325 (PDF) and 359-408 (slides): the markers of one page.
PageMarkers(index) ==
    {Marker(issues[k]) : k \in {j \in IssueIndexes :
        /\ isPageMatch(issues[j], index)
        /\ issues[j].boundingBox /= None}}

\* Lines 430-455: the floating markers of the HTML document.
HtmlMarkers ==
    {Marker(issues[k]) : k \in {j \in IssueIndexes : issues[j].boundingBox /= None}}

\* Mutant: `if (!isVideoMatch) return null`, the `isVideo &&` of line 549 dropped.
OverlayMarkers_AlwaysGated ==
    {Marker(issues[k]) : k \in {j \in IssueIndexes :
        /\ issues[j].boundingBox /= None
        /\ isVideoMatch(issues[j])}}

\* Lines 544-588: the overlay of the zoomable image / video.
OverlayMarkers ==
    {Marker(issues[k]) : k \in {j \in IssueIndexes :
        /\ issues[j].boundingBox /= None
        /\ ~(isVideo /\ ~isVideoMatch(issues[j]))}}

\* Lines 509-525: the timeline markers on the seek bar of the video.
TimelineMarkers ==
    {issues[k].id : k \in {j \in IssueIndexes : issues[j].timestamp /= None}}

\* Every marker on the canvas in the current render mode; carousel pages are
\* all rendered at once.
CanvasMarkers ==
    IF RenderMode \in {"pdf", "slides"}
    THEN UNION {PageMarkers(p - 1) : p \in RenderedPages}
    ELSE IF RenderMode = "html" THEN HtmlMarkers
    ELSE IF RenderMode \in {"video", "image"} THEN OverlayMarkers
    ELSE {}

\* Ids of the markers that carry onMouseEnter / onMouseLeave (lines 294, 377, 514).
HoverableIds ==
    IF RenderMode \in {"pdf", "slides"} THEN {m.id : m \in CanvasMarkers}
    ELSE IF RenderMode = "video" THEN TimelineMarkers
    ELSE {}

\* Mutant: the carousel tooltip shown for the selected marker too, the
\* condition of the image / video overlay (line 573).
CarouselTooltips_SelectedToo ==
    {m.id : m \in {n \in CanvasMarkers :
        selectedIssueId = Some(n.id) \/ hoveredMarkerId = Some(n.id)}}

\* Lines 304 and 387: the tooltip of a page marker, `hoveredMarkerId === issue.id`.
CarouselTooltips ==
    {m.id : m \in {n \in CanvasMarkers : hoveredMarkerId = Some(n.id)}}

\* Line 573: the tooltip of an overlay marker,
\* `isSelected || hoveredMarkerId === issue.id`.
OverlayTooltips ==
    {m.id : m \in {n \in OverlayMarkers :
        selectedIssueId = Some(n.id) \/ hoveredMarkerId = Some(n.id)}}

\* Line 518: the tooltip of a timeline marker.
TimelineTooltips == {id \in TimelineMarkers : hoveredMarkerId = Some(id)}

\* Every tooltip on screen, as <<layer, issue id>>; the markers of the HTML
\* document (lines 430-455) have none.
Tooltips ==
    IF RenderMode \in {"pdf", "slides"}
    THEN {<<"page", id>> : id \in CarouselTooltips}
    ELSE IF RenderMode = "image"
    THEN {<<"overlay", id>> : id \in OverlayTooltips}
    ELSE IF RenderMode = "video"
    THEN {<<"overlay", id>> : id \in OverlayTooltips}
            \cup {<<"timeline", id>> : id \in TimelineTooltips}
    ELSE {}

(***************************************************************************)
(* Handlers that touch the overlay's own state only.                       *)
(***************************************************************************)
WheelDeltas == {-1500, 1500}

\* Mutant: the upper clamp dropped, Math.max(1, prev + delta).
handleWheel_NoUpperClamp(deltaY) ==
    /\ ~isDoc
    /\ scale' = Max(MinScale, scale + (0 - deltaY))
    /\ UNCHANGED <<uploadVars, appVars, propVars, selectedIssueId, currentTime, duration, hoveredMarkerId,
                   numPages, vidTime, paused, viewPage, timers>>

\* handleWheel (lines 160-167); delta = -deltaY / 1000, in thousandths: -deltaY.
handleWheel(deltaY) ==
    /\ ~isDoc
    /\ scale' = Min(Max(MinScale, scale + (0 - deltaY)), MaxScale)
    /\ UNCHANGED <<uploadVars, appVars, propVars, selectedIssueId, currentTime, duration, hoveredMarkerId,
                   numPages, vidTime, paused, viewPage, timers>>

\* onMouseEnter of a marker (lines 294, 377, 514).
MouseEnter(id) ==
    /\ id \in HoverableIds
    /\ hoveredMarkerId' = Some(id)
    /\ UNCHANGED <<uploadVars, appVars, propVars, selectedIssueId, currentTime, duration, scale,
                   numPages, vidTime, paused, viewPage, timers>>

\* onMouseLeave of a marker (lines 295, 378, 515).
MouseLeave ==
    /\ hoveredMarkerId /= None
    /\ Val(hoveredMarkerId) \in HoverableIds
    /\ hoveredMarkerId' = None
    /\ UNCHANGED <<uploadVars, appVars, propVars, selectedIssueId, currentTime, duration, scale,
                   numPages, vidTime, paused, viewPage, timers>>

(***************************************************************************)
(* UploadSection (src/components/UploadSection.tsx): the upload form.      *)
(* A file name is the sequence of its parts between dots, the value of     *)
(* file.name.split('.').  A text is its owner and its length; the Base64   *)
(* data of a file is the name of the file.                                 *)
(***************************************************************************)
\* A File object.
File(name, type, length, extractable) ==
    [name |-> name, type |-> type, length |-> length, extractable |-> extractable]

\* String.prototype.toLowerCase over the name parts in use.
toLowerCase(s) ==
    CASE s = "PNG" -> "png"
      [] s = "JPG" -> "jpg"
      [] s = "Mp4" -> "mp4"
      [] s = "PDF" -> "pdf"
      [] s = "Docx" -> "docx"
      [] s = "README" -> "readme"
      [] OTHER -> s

\* file.name.split('.').pop()?.toLowerCase() || '' (line 113).
Ext(file) == toLowerCase(file.name[Len(file.name)])

\* Lines 114-121: the asset type of an extension.
DetectAssetType(ext) ==
    IF ext \in {"jpg", "jpeg", "png", "webp", "gif"} THEN IMAGE
    ELSE IF ext \in {"mp4", "mov", "avi", "webm"} THEN VIDEO
    ELSE IF ext \in {"ppt", "pptx", "key"} THEN PRESENTATION
    ELSE IF ext \in {"mp3", "wav", "m4a"} THEN PODCAST
    ELSE DOCUMENT

\* file.type.startsWith('text/') (line 171).
TextMimes == {"text/plain", "text/csv"}

\* The processing branch of handleFile (lines 137, 156, 171, 180).
Branch(file) ==
    IF Ext(file) = "docx" THEN "docx"
    ELSE IF Ext(file) \in {"pdf", "jpg", "jpeg", "png", "webp", "mp4", "mov", "avi",
                           "webm", "mp3", "wav"} THEN "binary"
    ELSE IF file.type \in TextMimes \/ Ext(file) \in {"txt", "md", "csv", "json"}
    THEN "text"
    ELSE "unsupported"

\* The accept attribute of the file input (line 326).
AcceptList ==
    {"pdf", "txt", "md", "jpg", "jpeg", "png", "mp4", "mov", "mp3", "wav", "docx", "pptx"}

Unsupported == "Unsupported file format. Please upload PDF, DOCX, PPTX, Image, Video or Text."
DocxFailed == "Failed to extract text from DOCX. Please paste content manually."

\* The labels of the processing step (lines 103 and 166).
Analyzing == "Analyzing file structure..."
ReadyForAnalysis == "Ready for Deep Analysis"

EmptyText == [of |-> <<>>, length |-> 0]
TextOf(file) == [of |-> file.name, length |-> file.length]

Global == "Global"
Regions == {Global, "India"}

\* The files of SpecUpload: one for each processing branch and one whose name
\* has no dot.
UploadFiles ==
    {File(<<"report", "pdf">>, "application/pdf", 0, TRUE),
     File(<<"notes", "txt">>, "text/plain", 40, TRUE),
     File(<<"brief", "docx">>,
          "application/vnd.openxmlformats-officedocument.wordprocessingml.document",
          40, TRUE),
     File(<<"brief", "Docx">>,
          "application/vnd.openxmlformats-officedocument.wordprocessingml.document",
          40, FALSE),
     File(<<"png">>, "", 0, TRUE),
     File(<<"deck", "pptx">>,
          "application/vnd.openxmlformats-officedocument.presentationml.presentation",
          0, TRUE)}

\* The files of SpecIntake: every extension of the accept list and of the
\* asset type table with the MIME type a browser reports for it, other and
\* missing extensions, upper-case letters, several dots, a trailing dot, and
\* extensions under a MIME type that is not theirs.
IntakeFiles ==
    {File(<<"report", "pdf">>, "application/pdf", 0, TRUE),
     File(<<"scan", "PDF">>, "", 0, TRUE),
     File(<<"notes", "txt">>, "text/plain", 40, TRUE),
     File(<<"todo", "txt">>, "text/plain", 5, TRUE),
     File(<<"readme", "md">>, "", 40, TRUE),
     File(<<"photo", "jpg">>, "image/jpeg", 0, TRUE),
     File(<<"photo", "JPG">>, "image/jpeg", 0, TRUE),
     File(<<"photo", "jpeg">>, "image/jpeg", 0, TRUE),
     File(<<"logo", "png">>, "image/png", 0, TRUE),
     File(<<"logo", "PNG">>, "image/png", 0, TRUE),
     File(<<"banner", "webp">>, "image/webp", 0, TRUE),
     File(<<"anim", "gif">>, "image/gif", 0, TRUE),
     File(<<"clip", "mp4">>, "video/mp4", 0, TRUE),
     File(<<"clip", "Mp4">>, "video/mp4", 0, TRUE),
     File(<<"clip", "mov">>, "video/quicktime", 0, TRUE),
     File(<<"clip", "avi">>, "video/x-msvideo", 0, TRUE),
     File(<<"clip", "webm">>, "video/webm", 0, TRUE),
     File(<<"talk", "mp3">>, "audio/mpeg", 0, TRUE),
     File(<<"talk", "wav">>, "audio/wav", 0, TRUE),
     File(<<"talk", "m4a">>, "audio/mp4", 0, TRUE),
     File(<<"talk", "m4a">>, "text/plain", 40, TRUE),
     File(<<"brief", "docx">>,
          "application/vnd.openxmlformats-officedocument.wordprocessingml.document",
          40, TRUE),
     File(<<"brief", "Docx">>,
          "application/vnd.openxmlformats-officedocument.wordprocessingml.document",
          40, FALSE),
     File(<<"deck", "pptx">>,
          "application/vnd.openxmlformats-officedocument.presentationml.presentation",
          0, TRUE),
     File(<<"deck", "pptx">>, "text/plain", 40, TRUE),
     File(<<"deck", "ppt">>, "application/vnd.ms-powerpoint", 0, TRUE),
     File(<<"deck", "key">>, "text/plain", 40, TRUE),
     File(<<"table", "csv">>, "text/csv", 40, TRUE),
     File(<<"data", "json">>, "application/json", 40, TRUE),
     File(<<"setup", "exe">>, "application/octet-stream", 0, TRUE),
     File(<<"README">>, "", 40, TRUE),
     File(<<"README">>, "text/plain", 40, TRUE),
     File(<<"png">>, "", 0, TRUE),
     File(<<"mp4">>, "text/plain", 40, TRUE),
     File(<<"archive", "tar", "gz">>, "application/gzip", 0, TRUE),
     File(<<"logo", "png", "txt">>, "text/plain", 40, TRUE),
     File(<<"notes", "txt", "png">>, "image/png", 0, TRUE),
     File(<<"draft", "">>, "", 40, TRUE)}

\* The answers of detectContext (services/gemini) used here.
DetectedTypes == {PRESENTATION}

\* The upload state the parent hands in at mount and the form's own state
\* (lines 53-63); enableRegion starts as `uploadState.region !== "Global"`.
UploadMount(region) ==
    /\ uploadState = [file |-> None, assetType |-> DOCUMENT, textInput |-> EmptyText,
                      fileBase64 |-> None, mimeType |-> "", region |-> region]
    /\ readers = <<>>
    /\ lastFile = None
    /\ formatWarning = None
    /\ enableRegion = (region /= Global)
    /\ isDetecting = FALSE
    /\ detects = 0
    /\ smartProcessingStep = None
    /\ clearTimers = 0
    /\ readyTimers = 0
    /\ fetch = "idle"

\* newState of handleFile (lines 125-132): the upload state of the render in
\* which handleFile was called, with the new file.
newState(file) ==
    [uploadState EXCEPT !.file = Some(file),
                        !.assetType = DetectAssetType(Ext(file)),
                        !.textInput = EmptyText,
                        !.fileBase64 = None,
                        !.mimeType = file.type]

\* The drop zone and its file input are rendered (line 294).
DropZoneShown == uploadState.file = None /\ uploadState.textInput.length = 0

\* handleFile (lines 101-185): onDrop and onChange of the file input.  A
\* FileReader is started with its onload closure, which holds newState.
handleFile(file) ==
    /\ DropZoneShown
    /\ clearTimers < MaxStepTimers
    /\ lastFile' = Some(file)
    /\ smartProcessingStep' = Some(Analyzing)
    /\ IF Branch(file) = "unsupported"
       THEN formatWarning' = Some(Unsupported) /\ UNCHANGED readers
       ELSE formatWarning' = None /\ readers' = Append(readers, newState(file))
    /\ clearTimers' = clearTimers + 1
    /\ UNCHANGED <<uploadState, enableRegion, isDetecting, detects, readyTimers, fetch,
                   overlayVars, appVars>>

\* The readers left when the i-th one has completed.
Without(i) == [j \in 1..(Len(readers) - 1) |-> IF j < i THEN readers[j] ELSE readers[j + 1]]

\* handleAutoDetect up to its await (lines 187-190).
StartsDetect(text) == text.length >= MinDetectLength

\* The upload state an onload callback stores (lines 143-146, 161-165, 175).
Loaded(r) ==
    LET file == Val(r.file)
    IN  IF Branch(file) = "binary"
        THEN [r EXCEPT !.fileBase64 = Some(file.name),
                       !.mimeType = IF file.type /= "" THEN file.type
                                    ELSE IF Ext(file) = "pdf" THEN PdfMime
                                    ELSE file.type]
        ELSE [r EXCEPT !.textInput = TextOf(file)]

\* ReaderLoad storing the file before the text is extracted.
ReaderLoad_StoresBeforeExtract(i) ==
    LET r == readers[i]
        file == Val(r.file)
    IN  /\ readers' = Without(i)
        /\ uploadState' = Loaded(r)
        /\ IF Branch(file) = "docx" /\ ~file.extractable
           THEN formatWarning' = Some(DocxFailed) /\ UNCHANGED <<isDetecting, detects>>
           ELSE /\ IF Branch(file) /= "binary" /\ StartsDetect(TextOf(file))
                   THEN detects < MaxDetects /\ isDetecting' = TRUE /\ detects' = detects + 1
                   ELSE UNCHANGED <<isDetecting, detects>>
                /\ UNCHANGED formatWarning
        /\ IF Branch(file) = "binary"
           THEN readyTimers < MaxStepTimers /\ readyTimers' = readyTimers + 1
           ELSE UNCHANGED readyTimers
        /\ UNCHANGED <<lastFile, enableRegion, smartProcessingStep, clearTimers, fetch,
                       overlayVars, appVars>>

\* reader.onload of the i-th pending reader (lines 139-152, 158-167, 173-177),
\* with the text extraction of mammoth for a DOCX file.
ReaderLoad(i) ==
    LET r == readers[i]
        file == Val(r.file)
    IN  /\ readers' = Without(i)
        /\ IF Branch(file) = "docx" /\ ~file.extractable
           THEN /\ formatWarning' = Some(DocxFailed)
                /\ UNCHANGED <<uploadState, isDetecting, detects>>
           ELSE /\ uploadState' = Loaded(r)
                /\ IF Branch(file) /= "binary" /\ StartsDetect(TextOf(file))
                   THEN detects < MaxDetects /\ isDetecting' = TRUE /\ detects' = detects + 1
                   ELSE UNCHANGED <<isDetecting, detects>>
                /\ UNCHANGED formatWarning
        /\ IF Branch(file) = "binary"
           THEN readyTimers < MaxStepTimers /\ readyTimers' = readyTimers + 1
           ELSE UNCHANGED readyTimers
        /\ UNCHANGED <<lastFile, enableRegion, smartProcessingStep, clearTimers, fetch,
                       overlayVars, appVars>>

\* handleSharePointFetch after `await handleAutoDetect(mockContent)` (line 226):
\* the detection that has settled is the fetch's own or another one.
FetchAfterDetect ==
    IF fetch = "detecting"
    THEN (IF detects = 1 THEN {"idle"} ELSE {"idle", "detecting"})
    ELSE {fetch}

\* detectContext answers (lines 191-197, 201-203).
DetectResolved(type) ==
    /\ detects > 0
    /\ detects' = detects - 1
    /\ isDetecting' = FALSE
    /\ uploadState' = [uploadState EXCEPT !.assetType = type]
    /\ fetch' \in FetchAfterDetect
    /\ UNCHANGED <<readers, lastFile, formatWarning, enableRegion, stepVars, overlayVars, appVars>>

\* detectContext fails (lines 198-203).
DetectRejected ==
    /\ detects > 0
    /\ detects' = detects - 1
    /\ isDetecting' = FALSE
    /\ fetch' \in FetchAfterDetect
    /\ UNCHANGED <<uploadState, readers, lastFile, formatWarning, enableRegion, stepVars,
                   overlayVars, appVars>>

\* handleRegionToggle(!enableRegion) (lines 230-235, 536).
handleRegionToggle ==
    /\ enableRegion' = ~enableRegion
    /\ IF enableRegion
       THEN uploadState' = [uploadState EXCEPT !.region = Global]
       ELSE UNCHANGED uploadState
    /\ UNCHANGED <<readers, lastFile, formatWarning, isDetecting, detects, stepVars, fetch,
                   overlayVars, appVars>>

\* onChange of the region select, rendered when enableRegion (lines 544-549).
SelectRegion(region) ==
    /\ enableRegion
    /\ uploadState.region /= region
    /\ uploadState' = [uploadState EXCEPT !.region = region]
    /\ UNCHANGED <<readers, lastFile, formatWarning, enableRegion, isDetecting, detects,
                   stepVars, fetch, overlayVars, appVars>>

\* onClick of the remove button of the selected file (line 341).
ClearFile ==
    /\ uploadState.file /= None
    /\ uploadState' = [uploadState EXCEPT !.file = None, !.textInput = EmptyText,
                                          !.fileBase64 = None]
    /\ UNCHANGED <<readers, lastFile, formatWarning, enableRegion, isDetecting, detects,
                   stepVars, fetch, overlayVars, appVars>>

\* The 2000 ms timer of handleFile elapses (line 184).
ClearStepElapsed ==
    /\ clearTimers > 0
    /\ clearTimers' = clearTimers - 1
    /\ smartProcessingStep' = None
    /\ UNCHANGED <<uploadState, readers, lastFile, formatWarning, enableRegion, isDetecting,
                   detects, readyTimers, fetch, overlayVars, appVars>>

\* The 500 ms timer of a binary read elapses (line 166).
ReadyStepElapsed ==
    /\ readyTimers > 0
    /\ readyTimers' = readyTimers - 1
    /\ smartProcessingStep' = Some(ReadyForAnalysis)
    /\ UNCHANGED <<uploadState, readers, lastFile, formatWarning, enableRegion, isDetecting,
                   detects, clearTimers, fetch, overlayVars, appVars>>

\* handleManualAutoDetect (lines 206-208), the button rendered when
\* `uploadState.textInput.length > 10 && !isDetecting` (line 396).
handleManualAutoDetect ==
    /\ uploadState.textInput.length > MinDetectLength
    /\ ~isDetecting
    /\ detects < MaxDetects
    /\ isDetecting' = TRUE
    /\ detects' = detects + 1
    /\ UNCHANGED <<uploadState, readers, lastFile, formatWarning, enableRegion, stepVars,
                   fetch, overlayVars, appVars>>

\* The text handleSharePointFetch imports (line 216).
MockContent == [of |-> <<"sharepoint">>, length |-> 300]

\* handleSharePointFetch (lines 210-214), the button disabled while
\* isFetchingUrl or with no URL (line 448).
handleSharePointFetch ==
    /\ fetch = "idle"
    /\ fetch' = "waiting"
    /\ UNCHANGED <<uploadState, readers, lastFile, formatWarning, enableRegion, isDetecting,
                   detects, stepVars, overlayVars, appVars>>

\* The 1500 ms timer of handleSharePointFetch elapses (lines 215-225): the
\* text is imported and handleAutoDetect starts.
SharePointFetched ==
    /\ fetch = "waiting"
    /\ detects < MaxDetects
    /\ uploadState' = [uploadState EXCEPT !.textInput = MockContent, !.file = None]
    /\ isDetecting' = TRUE
    /\ detects' = detects + 1
    /\ fetch' = "detecting"
    /\ UNCHANGED <<readers, lastFile, formatWarning, enableRegion, stepVars, overlayVars, appVars>>

(***************************************************************************)
(* ToastProvider (src/components/Toast.tsx).                               *)
(***************************************************************************)

\* The ids `Math.random().toString(36).substr(2, 9)` can give (line 38).
RandomIds == {"k3f9x2m1q", "7d0aq1zb4"}

Messages == {"Analysis complete", "Upload failed"}

ToastTypes == {"info", "error"}

\* ToastProvider at its mount (line 35).
ToastMount ==
    /\ toasts = <<>>
    /\ dismissTimers = {}
    /\ added = 0

\* prev.filter(t => t.id !== id) (lines 43 and 48).
WithoutId(id) == SelectSeq(toasts, LAMBDA t : t.id /= id)

\* addToast (lines 37-45); n names the call that made the toast and its timer.
addToast(message, type, id) ==
    /\ added < MaxToasts
    /\ added' = added + 1
    /\ toasts' = Append(toasts, [id |-> id, message |-> message, type |-> type,
                                 n |-> added + 1])
    /\ dismissTimers' = dismissTimers \cup {[id |-> id, n |-> added + 1]}
    /\ UNCHANGED <<overlayVars, uploadVars, dashVars>>

\* removeToast (lines 47-49), called by the X button of a toast (line 95).
removeToast(id) ==
    /\ toasts' = WithoutId(id)
    /\ UNCHANGED <<dismissTimers, added, overlayVars, uploadVars, dashVars>>

\* The 5000 ms timer of an addToast call elapses (lines 42-44).
DismissElapsed(timer) ==
    /\ timer \in dismissTimers
    /\ dismissTimers' = dismissTimers \ {timer}
    /\ toasts' = WithoutId(timer.id)
    /\ UNCHANGED <<added, overlayVars, uploadVars, dashVars>>

(***************************************************************************)
(* AdminDashboard (src/components/AdminDashboard.tsx).  JavaScript numbers *)
(* are IEEE 754 doubles: a quotient and a product are rounded to 53        *)
(* significant bits, to nearest, ties to even.  A double is written here   *)
(* as [d2, d1, d0, z], of value                                            *)
(*   (d2 * Limb^2 + d1 * Limb + d0) / 2^(52 + z),   Limb = 2^18.           *)
(***************************************************************************)

\* 2^18: three limbs hold the 53 significant bits of a double.
Limb == 262144

\* The limbs after the carries went up.
Carried(d2, d1, d0, z) ==
    LET c1 == d1 + (d0 \div Limb)
    IN  [d2 |-> d2 + (c1 \div Limb), d1 |-> c1 % Limb, d0 |-> d0 % Limb, z |-> z]

\* a / b as a double, for counts 0 < a <= b: a * 2^z / b lies in [1, 2), its
\* first 53 bits are the limbs, and what is left decides the rounding.
Divide(a, b) ==
    LET z == CHOOSE k \in 0..12 : b <= a * 2^k /\ a * 2^k < 2 * b
        n == a * 2^z
        q2 == (n * 2^16) \div b
        r2 == (n * 2^16) % b
        q1 == (r2 * Limb) \div b
        r1 == (r2 * Limb) % b
        q0 == (r1 * Limb) \div b
        r0 == (r1 * Limb) % b
        up == 2 * r0 > b \/ (2 * r0 = b /\ (q0 % 2) = 1)
    IN  Carried(q2, q1, q0 + (IF up THEN 1 ELSE 0), z)

\* x * 100 as a double: the exact product has 6 or 7 bits more than 53, which
\* are rounded away.
Times100(x) ==
    LET p0 == 100 * x.d0
        p1 == (100 * x.d1) + (p0 \div Limb)
        p2 == (100 * x.d2) + (p1 \div Limb)
        l0 == p0 % Limb
        k == IF p2 >= 2^23 THEN 7 ELSE 6
        low == l0 % 2^k
        up == low > 2^(k - 1) \/ (low = 2^(k - 1) /\ ((l0 \div 2^k) % 2) = 1)
    IN  Carried(p2, p1 % Limb, l0 - low + (IF up THEN 2^k ELSE 0), x.z)

\* Math.round of a double in [0, 128): the nearest integer, a half going up.
MathRound(x) == (x.d2 \div 2^(16 + x.z)) + ((x.d2 \div 2^(15 + x.z)) % 2)

\* Math.round((a / b) * 100) (lines 33 and 53), for counts a <= b.
Percent(a, b) == IF a = 0 THEN 0 ELSE MathRound(Times100(Divide(a, b)))

\* Top-issue strings, character by character.
Tone == <<"T", "o", "n", "e">>
Banned == <<"B", "a", "n", "n", "e", "d">>
LogoClaim == <<"l", "o", "g", "o", " ", "c", "l", "a", "i", "m">>
Idiom == <<"i", "d", "i", "o", "m">>

\* String.prototype.toLowerCase on the characters of the top-issue strings.
lowerCase(text) ==
    [i \in 1..Len(text) |->
        CASE text[i] = "T" -> "t"
          [] text[i] = "B" -> "b"
          [] OTHER -> text[i]]

\* String.prototype.includes.
includes(text, key) ==
    \E i \in 1..(Len(text) - Len(key) + 1) : SubSeq(text, i, i + Len(key) - 1) = key

\* The keywords of the category breakdown (lines 68 and 70).
BrandKeywords ==
    {<<"t", "o", "n", "e">>, <<"v", "o", "i", "c", "e">>, <<"f", "o", "n", "t">>,
     <<"l", "o", "g", "o">>, <<"s", "t", "y", "l", "e">>}

ComplianceKeywords ==
    {<<"b", "a", "n", "n", "e", "d">>, <<"c", "l", "a", "i", "m">>,
     <<"l", "e", "g", "a", "l">>, <<"v", "e", "r", "i", "f", "i", "e", "d">>,
     <<"p", "o", "l", "i", "c", "y">>}

\* The top-issue lists of the history items; None is an item without one.
TopIssueLists ==
    <<None, Some(<<>>), Some(<<Tone>>), Some(<<Banned, Idiom>>), Some(<<LogoClaim, Idiom>>)>>

\* A history of n items: `safe` Safe items first, then Unsafe and Caution
\* items in turn; the top-issue lists go round TopIssueLists from `shift` on.
HistoryOf(n, safe, shift) ==
    [i \in 1..n |->
        [safetyStatus |-> IF i <= safe THEN "Safe"
                          ELSE IF (i + shift) % 2 = 0 THEN "Unsafe" ELSE "Caution",
         topIssues |-> TopIssueLists[((i + shift) % Len(TopIssueLists)) + 1]]]

Histories ==
    {HistoryOf(n, safe, shift) :
        n \in 0..MaxHistory, safe \in 0..MaxHistory, shift \in 0..(Len(TopIssueLists) - 1)}

TimeRanges == {"7d", "30d", "90d"}

\* The days of a time range (line 22).
limit == IF timeRange = "7d" THEN 7 ELSE IF timeRange = "30d" THEN 30 ELSE 90

\* rawData (lines 21-24): history.slice(0, limit * 2).
rawData == SubSeq(history, 1, IF Len(history) < limit * 2 THEN Len(history) ELSE limit * 2)

\* rawData.filter(h => h.safetyStatus === status).length (lines 31-32).
StatusCount(status) == Len(SelectSeq(rawData, LAMBDA h : h.safetyStatus = status))

\* kpis (lines 27-37).
kpis ==
    LET total == Len(rawData)
    IN  IF total = 0
        THEN [passRate |-> 0, totalAnalyzed |-> 0, blockers |-> 0, timeSaved |-> 0]
        ELSE [passRate |-> Percent(StatusCount("Safe"), total),
              totalAnalyzed |-> total,
              blockers |-> StatusCount("Unsafe"),
              timeSaved |-> ((3 * total) + 2) \div 4]

\* categoryOf with the Compliance keywords looked for first.
categoryOf_ComplianceFirst(issue) ==
    LET lower == lowerCase(issue)
    IN  IF \E key \in ComplianceKeywords : includes(lower, key) THEN "Compliance"
        ELSE IF \E key \in BrandKeywords : includes(lower, key) THEN "Brand"
        ELSE "Cultural"

\* The category a top-issue string is counted in (lines 67-74).
categoryOf(issue) ==
    LET lower == lowerCase(issue)
    IN  IF \E key \in BrandKeywords : includes(lower, key) THEN "Brand"
        ELSE IF \E key \in ComplianceKeywords : includes(lower, key) THEN "Compliance"
        ELSE "Cultural"

\* h.topIssues?.forEach (line 66): the strings of an item, none when it has
\* no list.
issuesOf(h) == IF h.topIssues = None THEN <<>> ELSE Val(h.topIssues)

\* The counts after the first n items of rawData (lines 64-76).
RECURSIVE categories(_)
categories(n) ==
    IF n = 0 THEN [Brand |-> 0, Compliance |-> 0, Cultural |-> 0]
    ELSE LET before == categories(n - 1)
             strings == issuesOf(rawData[n])
             counted(name) == Len(SelectSeq(strings, LAMBDA issue : categoryOf(issue) = name))
         IN  [name \in {"Brand", "Compliance", "Cultural"} |-> before[name] + counted(name)]

\* categoryBreakdown (lines 63-82).
categoryBreakdown ==
    LET counts == categories(Len(rawData))
    IN  SelectSeq(<<[name |-> "Brand", value |-> counts.Brand, color |-> "#6366f1"],
                    [name |-> "Compliance", value |-> counts.Compliance, color |-> "#f59e0b"],
                    [name |-> "Cultural", value |-> counts.Cultural, color |-> "#10b981"]>>,
                  LAMBDA c : c.value > 0)

\* AdminDashboard at its mount with no history (line 18).
DashboardIdle ==
    /\ history = <<>>
    /\ timeRange = "30d"

\* setTimeRange, called by the range buttons (line 132).
setTimeRange(range) ==
    /\ timeRange' = range
    /\ UNCHANGED <<history, overlayVars, uploadVars, toastVars>>

\* The components outside the overlay and the upload form, before any use.
AppIdle == ToastMount /\ DashboardIdle

\* The overlay while the upload form is on screen: not mounted.
OverlayIdle ==
    /\ assetType = IMAGE
    /\ mimeType = "image/png"
    /\ htmlContent = FALSE
    /\ visualSlides = 0
    /\ issues = <<>>
    /\ selectedIssueId = None
    /\ currentTime = 0
    /\ duration = 0
    /\ scale = MinScale
    /\ hoveredMarkerId = None
    /\ numPages = 0
    /\ vidTime = 0
    /\ paused = TRUE
    /\ viewPage = 1
    /\ timers = <<>>

(***************************************************************************)
(* SpecUpload: the upload form from its mount on, with a few files and     *)
(* reads that overlap.                                                     *)
(***************************************************************************)
InitUpload == OverlayIdle /\ AppIdle /\ \E region \in Regions : UploadMount(region)

NextUpload ==
    \/ \E file \in UploadFiles : Len(readers) < MaxReaders /\ handleFile(file)
    \/ \E i \in 1..Len(readers) : ReaderLoad(i)
    \/ \E type \in DetectedTypes : DetectResolved(type)
    \/ DetectRejected
    \/ handleRegionToggle
    \/ \E region \in Regions : SelectRegion(region)
    \/ ClearFile
    \/ ClearStepElapsed
    \/ ReadyStepElapsed
    \/ handleManualAutoDetect
    \/ handleSharePointFetch
    \/ SharePointFetched

SpecUpload == InitUpload /\ [][NextUpload]_vars

(***************************************************************************)
(* SpecIntake: handleFile over many file names and MIME types, one file at *)
(* a time.                                                                 *)
(***************************************************************************)
NextIntake ==
    \/ \E file \in IntakeFiles : readers = <<>> /\ handleFile(file)
    \/ \E i \in 1..Len(readers) : ReaderLoad(i)
    \/ \E type \in DetectedTypes : DetectResolved(type)
    \/ DetectRejected
    \/ ClearFile
    \/ ClearStepElapsed
    \/ ReadyStepElapsed

SpecIntake == InitUpload /\ [][NextIntake]_vars

(***************************************************************************)
(* SpecRender: the rendering rules over bounded inputs.  The issue list,   *)
(* the asset and the view state (selected id, playback time, page count)   *)
(* are drawn from their ranges; hovering and zooming act on them.          *)
(***************************************************************************)
(***************************************************************************)
(* SpecToast: the toast list from the mount of ToastProvider on.           *)
(***************************************************************************)
InitToast == OverlayIdle /\ UploadMount(Global) /\ AppIdle

NextToast ==
    \/ \E message \in Messages, type \in ToastTypes, id \in RandomIds :
          addToast(message, type, id)
    \/ \E p \in 1..Len(toasts) : removeToast(toasts[p].id)
    \/ \E timer \in dismissTimers : DismissElapsed(timer)

SpecToast == InitToast /\ [][NextToast]_vars

(***************************************************************************)
(* SpecDashboard: the dashboard over a history, the range buttons in use.  *)
(***************************************************************************)
InitDashboard ==
    /\ OverlayIdle
    /\ UploadMount(Global)
    /\ ToastMount
    /\ history \in Histories
    /\ timeRange = "30d"

NextDashboard == \E range \in TimeRanges : setTimeRange(range)

SpecDashboard == InitDashboard /\ [][NextDashboard]_vars

InitRender ==
    /\ \E c \in AssetConfigs :
        /\ assetType = c[1]
        /\ mimeType = c[2]
        /\ htmlContent = c[3]
        /\ visualSlides = c[4]
    /\ issues \in RenderIssueLists
    /\ selectedIssueId \in {None} \cup {Some(i) : i \in Ids}
    /\ currentTime \in (IF RenderMode = "video" THEN 0..MaxTime ELSE {0})
    /\ numPages \in (IF RenderMode = "pdf" THEN 0..MaxPages ELSE {0})
    /\ UploadMount(Global)
    /\ AppIdle
    /\ duration = (IF RenderMode = "video" THEN MaxTime ELSE 0)
    /\ vidTime = currentTime
    /\ paused = TRUE
    /\ scale = MinScale
    /\ hoveredMarkerId = None
    /\ viewPage = 1
    /\ timers = <<>>

NextRender ==
    \/ \E d \in WheelDeltas : handleWheel(d)
    \/ \E id \in Ids : MouseEnter(id)
    \/ MouseLeave

SpecRender == InitRender /\ [][NextRender]_vars

(***************************************************************************)
(* Navigation: selection, seeking, settle delays, playback, scrolling.     *)
(***************************************************************************)
navVars == <<selectedIssueId, vidTime, paused, viewPage, timers>>

\* issues.find(i => i.id === id): the index (1-based) of the first such issue.
HasIssue(id) == findIndex(id) /= -1
find(id) == issues[findIndex(id) + 1]

\* The guard of handleSeekToIssue (line 189).
seeks(issue) == isVideo /\ Truthy(issue.timestamp) /\ videoRefCurrent

\* Lines 190-193: seek, pause and start the 200 ms settle delay whose
\* continuation calls onIssueSelect(issue.id); tq is the queue of delays so far.
seekAndSettle(issue, tq) ==
    /\ vidTime' = Val(issue.timestamp)
    /\ paused' = TRUE
    /\ timers' = Append(tq, issue.id)

\* pageRefs.current.get(pageNum): the wrappers of the rendered pages.
pageRefs == RenderedPages

\* Mutant: the effect navigates whatever the render mode: it seeks when the
\* issue has a timestamp and scrolls to the issue's page otherwise.
selectionEffect_AnyMode(id, tq) ==
    IF ~HasIssue(id)
    THEN timers' = tq /\ UNCHANGED <<vidTime, paused, viewPage>>
    ELSE IF Truthy(find(id).timestamp)
    THEN seekAndSettle(find(id), tq) /\ UNCHANGED viewPage
    ELSE /\ viewPage' = OrElse(find(id).page_number, 1)
         /\ timers' = tq
         /\ UNCHANGED <<vidTime, paused>>

\* The selection effect (lines 199-216), run for a new selectedIssueId = id.
\* In the video branch handleSeekToIssue either seeks or calls
\* onIssueSelect(id) for the id that is selected already.
selectionEffect(id, tq) ==
    IF ~HasIssue(id)
    THEN timers' = tq /\ UNCHANGED <<vidTime, paused, viewPage>>
    ELSE IF isVideo
    THEN IF seeks(find(id))
         THEN seekAndSettle(find(id), tq) /\ UNCHANGED viewPage
         ELSE timers' = tq /\ UNCHANGED <<vidTime, paused, viewPage>>
    ELSE IF useCarousel /\ OrElse(find(id).page_number, 1) \in pageRefs
    THEN /\ viewPage' = OrElse(find(id).page_number, 1)
         /\ timers' = tq
         /\ UNCHANGED <<vidTime, paused>>
    ELSE timers' = tq /\ UNCHANGED <<vidTime, paused, viewPage>>

\* The parent's onIssueSelect: it stores the id as selectedIssueId; the effect
\* runs when the prop changed.
onIssueSelect(id, tq) ==
    /\ selectedIssueId' = Some(id)
    /\ IF selectedIssueId /= Some(id)
       THEN selectionEffect(id, tq)
       ELSE timers' = tq /\ UNCHANGED <<vidTime, paused, viewPage>>

\* handleSeekToIssue (lines 188-196).
handleSeekToIssue(issue, tq) ==
    IF seeks(issue)
    THEN seekAndSettle(issue, tq) /\ UNCHANGED <<selectedIssueId, viewPage>>
    ELSE onIssueSelect(issue.id, tq)

localVars == <<propVars, currentTime, duration, scale, hoveredMarkerId, numPages>>

\* Mutant: the clicked issue moved to the front of the issue list.
MarkerClick_BringsToFront(k) ==
    /\ \E m \in CanvasMarkers : m.id = issues[k].id
    /\ Len(timers) < MaxTimers
    /\ onIssueSelect(issues[k].id, timers)
    /\ issues' = <<issues[k]>> \o SelectSeq(issues, LAMBDA x : x /= issues[k])
    /\ UNCHANGED <<uploadVars, appVars, assetType, mimeType, htmlContent, visualSlides, currentTime,
                   duration, scale, hoveredMarkerId, numPages>>

\* onClick of a canvas marker (lines 293, 376, 448, 567).
MarkerClick(k) ==
    /\ \E m \in CanvasMarkers : m.id = issues[k].id
    /\ Len(timers) < MaxTimers
    /\ onIssueSelect(issues[k].id, timers)
    /\ UNCHANGED <<uploadVars, appVars, localVars>>

\* A selection made outside the component (the issue list of the parent).
ExternalSelect(k) ==
    /\ Len(timers) < MaxTimers
    /\ onIssueSelect(issues[k].id, timers)
    /\ UNCHANGED <<uploadVars, appVars, localVars>>

\* onClick of a timeline marker (line 513).
TimelineClick(k) ==
    /\ RenderMode = "video"
    /\ issues[k].id \in TimelineMarkers
    /\ issues[k].timestamp /= None
    /\ Len(timers) < MaxTimers
    /\ handleSeekToIssue(issues[k], timers)
    /\ UNCHANGED <<uploadVars, appVars, localVars>>

\* The oldest settle delay elapses (line 193) and handleSeekToIssue goes on to
\* onIssueSelect (line 195).
SettleElapsed ==
    /\ timers /= <<>>
    /\ onIssueSelect(Head(timers), Tail(timers))
    /\ UNCHANGED <<uploadVars, appVars, localVars>>

\* onClick of the video (lines 482-485).
VideoClick ==
    /\ RenderMode = "video"
    /\ paused' = ~paused
    /\ UNCHANGED <<uploadVars, appVars, localVars, selectedIssueId, vidTime, viewPage, timers>>

\* The media element plays on.
PlaybackAdvance ==
    /\ RenderMode = "video"
    /\ ~paused
    /\ vidTime < duration
    /\ vidTime' = vidTime + 1
    /\ UNCHANGED <<uploadVars, appVars, localVars, selectedIssueId, paused, viewPage, timers>>

\* handleTimeUpdate (lines 182-186).
handleTimeUpdate ==
    /\ videoRefCurrent
    /\ currentTime /= vidTime
    /\ currentTime' = vidTime
    /\ UNCHANGED <<uploadVars, appVars, propVars, duration, scale, hoveredMarkerId, numPages, navVars>>

\* onLoadedMetadata (line 487).
LoadedMetadata ==
    /\ RenderMode = "video"
    /\ duration = 0
    /\ duration' = MaxTime
    /\ UNCHANGED <<uploadVars, appVars, propVars, currentTime, scale, hoveredMarkerId, numPages, navVars>>

\* onClick of the seek bar (lines 499-505).
SeekBarClick(t) ==
    /\ videoRefCurrent
    /\ duration /= 0
    /\ t \in 0..duration
    /\ vidTime' = t
    /\ UNCHANGED <<uploadVars, appVars, localVars, selectedIssueId, paused, viewPage, timers>>

\* onDocumentLoadSuccess (lines 118-120).
onDocumentLoadSuccess(n) ==
    /\ RenderMode = "pdf"
    /\ numPages = 0
    /\ numPages' = n
    /\ UNCHANGED <<uploadVars, appVars, propVars, currentTime, duration, scale, hoveredMarkerId, navVars>>

\* scrollByPage (lines 170-179): the container scrolls by its width and snaps
\* to a page in that direction.
scrollByPage(direction, q) ==
    /\ InCarousel
    /\ q \in RenderedPages
    /\ IF direction = "right" THEN q >= viewPage ELSE q <= viewPage
    /\ viewPage' = q
    /\ UNCHANGED <<uploadVars, appVars, localVars, selectedIssueId, vidTime, paused, timers>>

(***************************************************************************)
(* Spec: the component from its mount on.                                  *)
(***************************************************************************)
\* The issue lists of a session: two issues, each with one of these
\* <<page_number, timestamp>> anchors; the first with or without a bounding box.
NavAnchors ==
    {<<None, None>>,
     <<Some(0), Some(0)>>,
     <<Some(1), Some(1)>>,
     <<Some(MaxPages), Some(MaxTime)>>,
     <<Some(MaxPages + 1), None>>}

NavIssueLists ==
    LET box == Some(CHOOSE x \in Boxes : x.x = 10)
    IN  {<<Issue("a", b, a1[1], a1[2]), Issue("b", box, a2[1], a2[2])>> :
            b \in {None, box}, a1 \in NavAnchors, a2 \in NavAnchors}

Init ==
    /\ \E c \in AssetConfigs :
        /\ assetType = c[1]
        /\ mimeType = c[2]
        /\ htmlContent = c[3]
        /\ visualSlides = c[4]
    /\ issues \in NavIssueLists
    /\ selectedIssueId = None
    /\ currentTime = 0
    /\ duration = 0
    /\ scale = MinScale
    /\ hoveredMarkerId = None
    /\ numPages = 0
    /\ vidTime = 0
    /\ paused = TRUE
    /\ viewPage = 1
    /\ timers = <<>>
    /\ UploadMount(Global)
    /\ AppIdle

Next ==
    \/ \E k \in IssueIndexes : MarkerClick(k)
    \/ \E k \in IssueIndexes : ExternalSelect(k)
    \/ \E k \in IssueIndexes : TimelineClick(k)
    \/ SettleElapsed
    \/ VideoClick
    \/ PlaybackAdvance
    \/ handleTimeUpdate
    \/ LoadedMetadata
    \/ \E t \in 0..MaxTime : SeekBarClick(t)
    \/ \E n \in 1..MaxPages : onDocumentLoadSuccess(n)
    \/ \E d \in {"left", "right"} : \E q \in 1..MaxPages : scrollByPage(d, q)
    \/ \E d \in WheelDeltas : handleWheel(d)
    \/ \E id \in Ids : MouseEnter(id)
    \/ MouseLeave

Spec == Init /\ [][Next]_vars

(***************************************************************************)
(* Rendering claims (checked under SpecRender).                            *)
(***************************************************************************)
\* The canvas markers of issue k on the page numbered q of the carousel.
MarkedOnPage(k, q) == \E m \in PageMarkers(q - 1) : m.id = issues[k].id

\* The canvas markers of issue k in the current render mode.
MarkersOf(k) == {m \in CanvasMarkers : m.id = issues[k].id}

\* C1: in carousel mode an issue with a bounding box and a page number p (any
\* integer) is marked on page p and on no other rendered page.
C1_MarkedOnOwnPageOnly ==
    InCarousel =>
        \A k \in IssueIndexes :
            (issues[k].boundingBox /= None /\ issues[k].page_number /= None) =>
                \A q \in RenderedPages :
                    MarkedOnPage(k, q) <=> (q = Val(issues[k].page_number))

\* C2: in carousel mode an issue with a bounding box and no page number is
\* marked on page 1 and on no page greater than 1.
C2_UnpagedOnFirstPageOnly ==
    InCarousel =>
        \A k \in IssueIndexes :
            (issues[k].boundingBox /= None /\ issues[k].page_number = None) =>
                \A q \in RenderedPages :
                    /\ q = 1 => MarkedOnPage(k, q)
                    /\ q > 1 => ~MarkedOnPage(k, q)

C2_Witness ==
    /\ InCarousel
    /\ Cardinality(RenderedPages) >= 2
    /\ \E k \in IssueIndexes :
        /\ issues[k].boundingBox /= None
        /\ issues[k].page_number = None
        /\ MarkedOnPage(k, 1)
        /\ ~MarkedOnPage(k, 2)

\* C3: for a video an issue with a bounding box has a marker exactly when it is
\* the selected issue or it has a timestamp t (0 included) with
\* |currentTime - t| < 3.
C3_VideoMarkerIffSelectedOrInWindow ==
    RenderMode = "video" =>
        \A k \in IssueIndexes :
            issues[k].boundingBox /= None =>
                (MarkersOf(k) /= {} <=>
                    \/ selectedIssueId = Some(issues[k].id)
                    \/ \E t \in -1..MaxTime :
                        /\ issues[k].timestamp = Some(t)
                        /\ currentTime - t < 3
                        /\ t - currentTime < 3)

C3_Witness ==
    /\ RenderMode = "video"
    /\ Len(issues) = 2
    /\ issues[1].boundingBox /= None
    /\ issues[1].timestamp = Some(0)
    /\ selectedIssueId = None
    /\ currentTime = 2
    /\ MarkersOf(1) /= {}
    /\ issues[2].boundingBox /= None
    /\ issues[2].timestamp = None
    /\ MarkersOf(2) = {}

\* C4: for a static image every issue with a bounding box has a marker, whatever
\* its page number, its timestamp, the playback time and the selection.
C4_ImageMarksEveryBox ==
    RenderMode = "image" =>
        \A k \in IssueIndexes : issues[k].boundingBox /= None => MarkersOf(k) /= {}

C4_Witness ==
    /\ RenderMode = "image"
    /\ assetType = IMAGE
    /\ \E k \in IssueIndexes :
        /\ issues[k].boundingBox /= None
        /\ issues[k].page_number = Some(MaxPages + 1)
        /\ issues[k].timestamp = Some(MaxTime)
        /\ selectedIssueId /= Some(issues[k].id)
        /\ MarkersOf(k) /= {}

UniqueIds == \A j, k \in IssueIndexes : issues[j].id = issues[k].id => j = k

C6_BadgeIsListPosition ==
    UniqueIds =>
        \A k \in IssueIndexes : \A m \in MarkersOf(k) : m.badge = 1 + (k - 1)

C6_Witness ==
    /\ Len(issues) = 2
    /\ issues[1].boundingBox = None
    /\ \E m \in MarkersOf(2) : m.badge = 2

\* C7: every marker is anchored at (x + width/2, y + height/2) of its issue's
\* box (doubled here), unclamped, in every render path.
C7_AnchorIsBoxCentre ==
    \A k \in IssueIndexes : \A m \in MarkersOf(k) :
        LET box == Val(issues[k].boundingBox)
        IN  /\ m.left = box.x + box.x + box.width
            /\ m.top = box.y + box.y + box.height

C7_Witness ==
    /\ RenderMode = "html"
    /\ \E k \in IssueIndexes : \E m \in MarkersOf(k) :
        /\ m.left > 200
        /\ m.top < 0

(***************************************************************************)
(* Navigation claims (checked under Spec).                                 *)
(***************************************************************************)
\* A step that changes the selection to the issue with id `id`.
Selects(id) == selectedIssueId /= Some(id) /\ selectedIssueId' = Some(id)

\* C8 as stated: for a video, selecting an issue that has a timestamp t (0
\* included) sets the playback position to t and pauses the video.
C8_SelectSeeksToTimestamp ==
    [][\A k \in IssueIndexes :
        (RenderMode = "video" /\ Selects(issues[k].id) /\ issues[k].timestamp /= None) =>
            (vidTime' = Val(issues[k].timestamp) /\ paused' = TRUE)]_vars

\* C9 as stated: in a carousel, selecting an issue scrolls to the page of its
\* page number (when that page is rendered), to page 1 when it has no page
\* number, and to no other page.
C9_SelectScrollsToIssuePage ==
    [][\A k \in IssueIndexes :
        (InCarousel /\ ~isVideo /\ Selects(issues[k].id)) =>
            LET page == issues[k].page_number
            IN  /\ (page /= None /\ Val(page) \in RenderedPages) => viewPage' = Val(page)
                /\ (page = None /\ 1 \in RenderedPages) => viewPage' = 1
                /\ viewPage' /= viewPage =>
                      viewPage' = (IF page /= None THEN Val(page) ELSE 1)]_vars

\* C10: for a static image, a step that changes the selection leaves the
\* playback position, the paused state, the scroll position and the zoom scale
\* unchanged.
C10_ImageSelectNavigatesNowhere ==
    [][(RenderMode = "image" /\ selectedIssueId' /= selectedIssueId) =>
        UNCHANGED <<vidTime, paused, viewPage, scale, currentTime>>]_vars

C10_Witness ==
    /\ RenderMode = "image"
    /\ assetType = IMAGE
    /\ scale > MinScale
    /\ selectedIssueId = Some("b")
    /\ issues[2].timestamp = Some(MaxTime)
    /\ issues[2].page_number = Some(MaxPages)

(***************************************************************************)
(* Malformed issue data and the carousel as a whole (checked under         *)
(* SpecRender).                                                            *)
(***************************************************************************)
\* Number of pages the carousel renders.
pageCount == Cardinality(RenderedPages)

\* C11 as stated: malformed issue data is handled by omission: an issue with
\* no bounding box (any mode), with a page number outside 1..pageCount (0 and
\* negative values included, carousel), or with a negative timestamp (video)
\* has no marker, whatever the selection and the playback time.
C11_MalformedIssueOmitted ==
    \A k \in IssueIndexes :
        LET issue == issues[k]
        IN  /\ issue.boundingBox = None => MarkersOf(k) = {}
            /\ (InCarousel /\ issue.page_number /= None
                    /\ Val(issue.page_number) \notin 1..pageCount) => MarkersOf(k) = {}
            /\ (RenderMode = "video" /\ issue.timestamp /= None
                    /\ Val(issue.timestamp) < 0) => MarkersOf(k) = {}

\* C17: in carousel mode, with unique ids, no issue is marked on two different
\* pages and no issue has two markers; an issue with a bounding box whose page
\* lies in 1..pageCount, or that has no page number while pageCount >= 1, is
\* marked on exactly one page.
C17_OneMarkerOverAllPages ==
    (InCarousel /\ UniqueIds) =>
        \A k \in IssueIndexes :
            LET issue == issues[k]
                marked == {q \in RenderedPages : MarkedOnPage(k, q)}
            IN  /\ Cardinality(marked) <= 1
                /\ Cardinality(MarkersOf(k)) <= 1
                /\ (/\ issue.boundingBox /= None
                    /\ \/ issue.page_number = None /\ pageCount >= 1
                       \/ issue.page_number /= None
                            /\ Val(issue.page_number) \in 1..pageCount)
                        => Cardinality(marked) = 1

C17_Witness ==
    /\ InCarousel
    /\ pageCount = MaxPages
    /\ Len(issues) = 2
    /\ issues[1].boundingBox /= None
    /\ issues[1].page_number = Some(MaxPages)
    /\ {q \in RenderedPages : MarkedOnPage(1, q)} = {MaxPages}
    /\ issues[2].boundingBox /= None
    /\ issues[2].page_number = None
    /\ {q \in RenderedPages : MarkedOnPage(2, q)} = {1}

(***************************************************************************)
(* The settle delay, hover and selection (checked under Spec).             *)
(***************************************************************************)
\* The id whose settle delay was started last.
LastTimer == timers[Len(timers)]

\* C12 as stated: in video mode, when the settle delay of issue A elapses
\* after issue B has been selected (B's delay is pending behind A's, B is the
\* selected issue and the playback position is B's timestamp), the completion
\* of A is ignored: the selected issue stays B and the position stays B's.
C12_StaleSettleIgnored ==
    [][(/\ RenderMode = "video"
        /\ Len(timers) >= 2
        /\ Head(timers) /= LastTimer
        /\ selectedIssueId = Some(LastTimer)
        /\ HasIssue(LastTimer)
        /\ find(LastTimer).timestamp = Some(vidTime)
        /\ SettleElapsed)
            => (selectedIssueId' = selectedIssueId /\ vidTime' = vidTime)]_vars

\* C13 as stated: a step that changes the hovered issue changes nothing but
\* the tooltips (no prop, no selection, no navigation, no marker), and a step
\* that changes the selected issue and not the hovered one leaves the set of
\* visible tooltips unchanged.
C13_HoverAndSelectionIndependent ==
    [][/\ hoveredMarkerId' /= hoveredMarkerId =>
            /\ UNCHANGED <<propVars, selectedIssueId, currentTime, duration, scale,
                           numPages, vidTime, paused, viewPage, timers>>
            /\ CanvasMarkers' = CanvasMarkers
       /\ (selectedIssueId' /= selectedIssueId /\ hoveredMarkerId' = hoveredMarkerId) =>
            Tooltips' = Tooltips]_vars

\* C13 amended: a step that changes the hovered issue changes nothing but the
\* tooltips; on carousel pages and in the HTML document a step that changes
\* the selection and not the hover leaves the tooltips unchanged; on the image
\* and video overlay the tooltip of an issue is shown exactly when its marker
\* is visible and the issue is selected or hovered.
C13_SelectionShowsOverlayTooltip ==
    /\ [][/\ hoveredMarkerId' /= hoveredMarkerId =>
            /\ UNCHANGED <<propVars, selectedIssueId, currentTime, duration, scale,
                           numPages, vidTime, paused, viewPage, timers>>
            /\ CanvasMarkers' = CanvasMarkers
       /\ (/\ RenderMode \notin {"image", "video"}
           /\ selectedIssueId' /= selectedIssueId
           /\ hoveredMarkerId' = hoveredMarkerId) => Tooltips' = Tooltips]_vars
    /\ [](RenderMode \in {"image", "video"} =>
            \A k \in IssueIndexes :
                <<"overlay", issues[k].id>> \in Tooltips <=>
                    /\ MarkersOf(k) /= {}
                    /\ \/ selectedIssueId = Some(issues[k].id)
                       \/ hoveredMarkerId = Some(issues[k].id))

C13_Witness ==
    /\ InCarousel
    /\ hoveredMarkerId = Some("a")
    /\ selectedIssueId = Some("a")
    /\ viewPage = MaxPages
    /\ Tooltips = {<<"page", "a">>}

\* The inputs of the marker computation: the asset descriptor, the issue list
\* and the view state (page count, selected id, playback time).
markerInputs ==
    <<assetType, mimeType, htmlContent, visualSlides, issues, numPages,
      selectedIssueId, currentTime>>

\* The result of the marker computation: every visible marker with the page
\* it is drawn on (0 outside the carousel).
PlacedMarkers ==
    IF InCarousel
    THEN UNION {{<<p, m>> : m \in PageMarkers(p - 1)} : p \in RenderedPages}
    ELSE {<<0, m>> : m \in CanvasMarkers}

C16_SeekPauseSettleThenSelect ==
    [][/\ \A k \in IssueIndexes :
            (RenderMode = "video" /\ issues[k].timestamp /= None /\ TimelineClick(k)) =>
                /\ vidTime' = Val(issues[k].timestamp)
                /\ paused' = TRUE
                /\ timers' = Append(timers, issues[k].id)
                /\ selectedIssueId' = selectedIssueId
       /\ timers' /= timers =>
            \/ \E id \in Ids : timers' = Append(timers, id)
            \/ /\ timers /= <<>>
               /\ selectedIssueId' = Some(Head(timers))
               /\ \/ timers' = Tail(timers)
                  \/ \E id \in Ids : timers' = Append(Tail(timers), id)
       /\ \A k \in IssueIndexes :
            (/\ RenderMode = "video"
             /\ issues[k].timestamp = None
             /\ MarkerClick(k) \/ ExternalSelect(k)) =>
                /\ selectedIssueId' = Some(issues[k].id)
                /\ UNCHANGED <<vidTime, paused, timers>>]_vars

(***************************************************************************)
(* Quiescence of the selection loop (checked under SpecFair).              *)
(***************************************************************************)
\* A selection by the user: a click on a marker, on a timeline marker, or in
\* the parent's issue list.
UserSelect ==
    \E k \in IssueIndexes : MarkerClick(k) \/ ExternalSelect(k) \/ TimelineClick(k)

\* A started settle delay elapses (setTimeout, line 193).
SpecFair == Init /\ [][Next]_vars /\ WF_vars(SettleElapsed)

\* C15 as stated: once the user selects no more, the selection loop comes to
\* rest: eventually no settle delay is pending for good (so no further seek
\* is issued and selectedIssueId changes no more).
C15_SelectionLoopQuiesces ==
    (<>[][~UserSelect]_vars) => <>[](timers = <<>>)

(***************************************************************************)
(* File intake of the upload form (checked under SpecUpload and            *)
(* SpecIntake).                                                            *)
(***************************************************************************)
\* The extension of a file: the lower-cased text after the last dot of its
\* name, "" when the name has no dot.
Extension(file) ==
    IF Len(file.name) >= 2 THEN toLowerCase(file.name[Len(file.name)]) ELSE ""

\* A read that succeeds: every read but that of a DOCX file whose text cannot
\* be extracted.
ReadSucceeds(file) == ~(Branch(file) = "docx" /\ ~file.extractable)

\* C18 as stated: a file read that completes loses no change made to the
\* upload state since its handleFile call (the region chosen meanwhile stays),
\* and when the last pending read completes the upload state holds the file
\* given to handleFile last (file, asset type, MIME type and content),
\* whichever read completed first.
C18_LastFileWins ==
    [][\A i \in 1..Len(readers) :
        (ReaderLoad(i) /\ ReadSucceeds(Val(readers[i].file))) =>
            /\ uploadState'.region = uploadState.region
            /\ (/\ readers' = <<>>
                /\ lastFile /= None
                /\ Branch(Val(lastFile)) /= "unsupported"
                /\ ReadSucceeds(Val(lastFile))) =>
                    LET last == Val(lastFile)
                    IN  /\ uploadState'.file = lastFile
                        /\ uploadState'.assetType = DetectAssetType(Ext(last))
                        /\ uploadState'.mimeType = last.type
                        /\ IF Branch(last) = "binary"
                           THEN uploadState'.fileBase64 = Some(last.name)
                           ELSE uploadState'.textInput = TextOf(last)]_vars

\* C19 as stated: handleFile of a file whose extension is in the accept list
\* of the file input sets no 'Unsupported file format' warning and starts a
\* read, and every read that succeeds stores its file in uploadState.file; a
\* handleFile call that sets that warning leaves the upload state unchanged
\* and starts no read.
C19_AcceptedFileIsStored ==
    [][/\ \A file \in IntakeFiles :
            handleFile(file) =>
                /\ Extension(file) \in AcceptList =>
                      (formatWarning' /= Some(Unsupported) /\ Len(readers') = Len(readers) + 1)
                /\ formatWarning' = Some(Unsupported) =>
                      (uploadState' = uploadState /\ readers' = readers)
       /\ \A i \in 1..Len(readers) :
            (ReaderLoad(i) /\ ReadSucceeds(Val(readers[i].file))) =>
                uploadState'.file = readers[i].file]_vars

\* The asset type table of the claim.
TypeOfExtension(ext) ==
    CASE ext \in {"jpg", "jpeg", "png", "webp", "gif"} -> IMAGE
      [] ext \in {"mp4", "mov", "avi", "webm"} -> VIDEO
      [] ext \in {"ppt", "pptx", "key"} -> PRESENTATION
      [] ext \in {"mp3", "wav", "m4a"} -> PODCAST
      [] OTHER -> DOCUMENT

\* C20 as stated: the asset type handleFile chooses for a file (held by the
\* read it starts) is the type of the lower-cased text after the last dot of
\* the file name: Image, Video, Presentation or Podcast for the listed
\* extensions, Document for pdf, every other extension and a name with no
\* extension, whatever the letter case and the MIME type.
C20_AssetTypeFromExtension ==
    \A i \in 1..Len(readers) :
        readers[i].assetType = TypeOfExtension(Extension(Val(readers[i].file)))

(***************************************************************************)
(* Zoom and the issue list (checked under Spec).                           *)
(***************************************************************************)
\* C26: the zoom scale (in thousandths) is within [1, 4] in every reachable
\* state, whatever wheel events came before, and no step changes the scale
\* of a document-type asset (HTML content, Document, Presentation or PDF).
C26_ScaleWithinBounds ==
    /\ [](MinScale <= scale /\ scale <= MaxScale)
    /\ [][isDoc => scale' = scale]_vars

C26_Witness ==
    /\ ~isDoc
    /\ scale = MaxScale
    /\ selectedIssueId /= None

\* C29: no step of the overlay (marker click, timeline click, settle delay,
\* hover, time update, seek-bar click, wheel zoom, page scroll, PDF load,
\* playback) changes the issue list, neither its content nor its order.
C29_IssueListReadOnly == [][issues' = issues]_vars

C29_Witness ==
    /\ Len(issues) = 2
    /\ selectedIssueId = Some("b")
    /\ hoveredMarkerId /= None
    /\ numPages = MaxPages
    /\ viewPage = MaxPages
(***************************************************************************)
(* The upload form: failures, the region toggle, detection and the         *)
(* processing step (checked under SpecIntake and SpecUpload).              *)
(***************************************************************************)

\* C21: when the text of a DOCX file cannot be extracted the read ends with
\* the warning asking to paste the content manually, the upload state is
\* unchanged (the file is not stored) and no detection starts.
C21_DocxFailureCaught ==
    [][\A i \in 1..Len(readers) :
        (ReaderLoad(i) /\ ~ReadSucceeds(Val(readers[i].file))) =>
            /\ formatWarning' = Some(DocxFailed)
            /\ uploadState' = uploadState
            /\ isDetecting' = isDetecting
            /\ detects' = detects
            /\ readers' = Without(i)]_vars

\* A failed DOCX read has ended: the warning is shown and no file is stored.
C21_Witness ==
    /\ formatWarning = Some(DocxFailed)
    /\ lastFile /= None
    /\ ~ReadSucceeds(Val(lastFile))
    /\ readers = <<>>
    /\ uploadState.file = None

\* C22 as stated: with the region toggle off the region of the upload state
\* is Global, in every reachable state of the form.
C22_ToggleOffMeansGlobal == ~enableRegion => uploadState.region = Global

\* C23 as stated: isDetecting is true exactly while a detectContext call is
\* in flight.
C23_DetectingWhileInFlight == isDetecting <=> detects > 0

\* C24 as stated: once every timer and every read started by handleFile has
\* completed, the processing-step label is null.
C24_StepLabelCleared ==
    (readers = <<>> /\ clearTimers = 0 /\ readyTimers = 0) => smartProcessingStep = None
(***************************************************************************)
(* Toasts (checked under SpecToast).                                       *)
(***************************************************************************)

\* The toast list without the toast made by call n of addToast.
WithoutToast(n) == SelectSeq(toasts, LAMBDA t : t.n /= n)

\* C25 as stated, its parts on single steps: addToast puts the toast last;
\* the X button of a toast removes that toast and leaves every other toast
\* as it is; the timer of a toast removes that toast, or nothing when it is
\* gone, and leaves every other toast as it is.
C25_RemovalLeavesOthers ==
    [][/\ \A message \in Messages, type \in ToastTypes, id \in RandomIds :
            addToast(message, type, id) =>
                (Len(toasts') = Len(toasts) + 1 /\ SubSeq(toasts', 1, Len(toasts)) = toasts)
       /\ \A p \in 1..Len(toasts) :
            removeToast(toasts[p].id) => toasts' = WithoutToast(toasts[p].n)
       /\ \A timer \in dismissTimers :
            DismissElapsed(timer) => toasts' = WithoutToast(timer.n)]_vars

(***************************************************************************)
(* The dashboard (checked under SpecDashboard).                            *)
(***************************************************************************)

\* The items of the window with a safety status.
WindowCount(status) ==
    Cardinality({i \in 1..Len(rawData) : rawData[i].safetyStatus = status})

\* round(100 * a / b), a half going up.
RoundedPercent(a, b) == ((200 * a) + b) \div (2 * b)

\* C27 as stated: the window is the first 2 * limit items of the history;
\* over an empty window all four KPIs are 0; otherwise totalAnalyzed is the
\* window size, passRate is round(100 * Safe / totalAnalyzed) and lies in
\* 0..100, blockers is the Unsafe count and Safe + blockers <= totalAnalyzed.
C27_KpisOverWindow ==
    LET first == IF timeRange = "7d" THEN 14 ELSE IF timeRange = "30d" THEN 60 ELSE 180
        size == IF Len(history) < first THEN Len(history) ELSE first
        safe == WindowCount("Safe")
    IN  /\ rawData = [i \in 1..size |-> history[i]]
        /\ size = 0 =>
              kpis = [passRate |-> 0, totalAnalyzed |-> 0, blockers |-> 0, timeSaved |-> 0]
        /\ size > 0 =>
              /\ kpis.totalAnalyzed = size
              /\ kpis.passRate = RoundedPercent(safe, size)
              /\ kpis.passRate \in 0..100
              /\ kpis.blockers = WindowCount("Unsafe")
              /\ safe + kpis.blockers <= size

\* The top-issue strings of the window, by item and place.
WindowIssues ==
    {<<i, j>> \in (1..Len(rawData)) \X (1..2) :
        rawData[i].topIssues /= None /\ j <= Len(Val(rawData[i].topIssues))}

IssueAt(ij) == lowerCase(Val(rawData[ij[1]].topIssues)[ij[2]])

HasKeyword(text, keys) == \E key \in keys : includes(text, key)

\* C28: a top-issue string of the window is counted under Brand when it has
\* a Brand keyword, under Compliance when it has a Compliance keyword and no
\* Brand keyword, under Cultural otherwise; the three counts sum to the
\* number of strings, and the breakdown lists, in this order, the categories
\* whose count is above 0.
C28_EachIssueInOneCategory ==
    LET counts == categories(Len(rawData))
        brand == {ij \in WindowIssues : HasKeyword(IssueAt(ij), BrandKeywords)}
        compliance == {ij \in WindowIssues \ brand : HasKeyword(IssueAt(ij), ComplianceKeywords)}
        breakdown == categoryBreakdown
        listed(name) == \E k \in 1..Len(breakdown) : breakdown[k].name = name
    IN  /\ counts.Brand = Cardinality(brand)
        /\ counts.Compliance = Cardinality(compliance)
        /\ counts.Cultural = Cardinality(WindowIssues \ (brand \cup compliance))
        /\ counts.Brand + counts.Compliance + counts.Cultural = Cardinality(WindowIssues)
        /\ \A name \in {"Brand", "Compliance", "Cultural"} : listed(name) <=> counts[name] > 0
        /\ \A k \in 1..Len(breakdown) : breakdown[k].value = counts[breakdown[k].name]
        /\ \A k \in 1..(Len(breakdown) - 1) :
              <<breakdown[k].name, breakdown[k + 1].name>> \in
                  {<<"Brand", "Compliance">>, <<"Brand", "Cultural">>,
                   <<"Compliance", "Cultural">>}

\* A window cut short of the history, with strings of all three categories,
\* one of them with a Brand and a Compliance keyword.
C28_Witness ==
    /\ Len(rawData) < Len(history)
    /\ Len(categoryBreakdown) = 3
    /\ \E ij \in WindowIssues :
          HasKeyword(IssueAt(ij), BrandKeywords) /\ HasKeyword(IssueAt(ij), ComplianceKeywords)

====
